---- MODULE Spec2Model ----
(***************************************************************************)
(* Model of tools/organize_crp.py: the organizer of extracted CRP assets.  *)
(*                                                                         *)
(* A path is a sequence of tokens (strings); the Python string tests of    *)
(* the source (in, endswith, split, os.path.basename, int) are computed on *)
(* token sequences.  The tokens are chosen so that every pattern the code  *)
(* looks for ("entry", "entry_", "Mesh", "Material", "Texture", ".obj",    *)
(* ".json", ".png", ".jpg", "header.json", "GameObject.json" and the       *)
(* checksums) begins and ends on token boundaries.                         *)
(***************************************************************************)
EXTENDS Integers, Sequences, FiniteSets, TLC

(***************************************************************************)
(* Bounds of the model.                                                    *)
(***************************************************************************)
\* Largest number of differences between the input directory and the
\* reference directory (a file missing, a file added, a document changed,
\* the enumeration order reversed).
MaxOdd == 2
\* Largest number of lines of the --file list.
MaxUnits == 2

(***************************************************************************)
(* Python string operations on token sequences.                            *)
(***************************************************************************)
\* s[i:j] with 1-based inclusive bounds.
Slice(s, i, j) == [k \in 1..(j - i + 1) |-> s[i + k - 1]]

\* pat in s
Contains(s, pat) ==
    \E i \in 1..(Len(s) - Len(pat) + 1) : Slice(s, i, i + Len(pat) - 1) = pat

\* s.endswith(pat)
EndsWith(s, pat) ==
    /\ Len(s) >= Len(pat)
    /\ Slice(s, Len(s) - Len(pat) + 1, Len(s)) = pat

\* Position of the first occurrence of pat in s, 0 if there is none.
Find(s, pat) ==
    IF Contains(s, pat)
    THEN CHOOSE i \in 1..(Len(s) - Len(pat) + 1) :
            /\ Slice(s, i, i + Len(pat) - 1) = pat
            /\ \A j \in 1..(i - 1) : Slice(s, j, j + Len(pat) - 1) # pat
    ELSE 0

\* os.path.join(d, name)
Join(d, name) == d \o <<"/">> \o name

\* os.path.basename(p): what follows the last "/".
Basename(p) ==
    IF \E i \in 1..Len(p) : p[i] = "/"
    THEN LET last == CHOOSE i \in 1..Len(p) :
                        p[i] = "/" /\ \A j \in (i + 1)..Len(p) : p[j] # "/"
         IN  Slice(p, last + 1, Len(p))
    ELSE p

\* The decimal strings int() accepts, with their values.
NumVal == [d \in {"0", "1", "2", "3", "4", "12"} |->
            CASE d = "0" -> 0 [] d = "1" -> 1 [] d = "2" -> 2 [] d = "3" -> 3
              [] d = "4" -> 4 [] d = "12" -> 12]

Abs(x) == IF x < 0 THEN -x ELSE x

Range(s) == {s[i] : i \in 1..Len(s)}

Reverse(s) == [i \in 1..Len(s) |-> s[Len(s) + 1 - i]]

(***************************************************************************)
(* The input directory: its path, the names it may hold and what the files *)
(* hold.  A file's content is what json.load gives for it.                 *)
(***************************************************************************)
\* os.path.abspath(input_dir)
input_dir == <<"/", "data", "/", "crp">>

N_header == <<"header", ".json">>
N_old    == <<"old", "_", "header", ".json">>
N_mesh   == <<"entry", "_", "0", "_", "x", ".obj">>
N_mat    == <<"entry", "_", "1", "_", "Material", ".json">>
N_tex    == <<"entry", "_", "2", "_", "x", ".png">>
N_go     == <<"entry", "_", "3", "_", "GameObject", ".json">>
N_go2    == <<"entry", "_", "4", "_", "GameObject", ".json">>
N_zz     == <<"entry", "_", "12", "_", "ZZ", ".png">>
N_mm     == <<"entry", "_", "0", "_", "Mesh", "Material", ".json">>
N_tm     == <<"Texture", "Material", ".json">>
N_bad    == <<"entry", "_", "x", ".bin">>
\* The default output directory, an entry of the input directory once made.
N_organized == <<"organized">>

\* The order in which os.listdir enumerates (or its reverse).
CatalogOrder ==
    <<N_header, N_old, N_mesh, N_mat, N_tex, N_go, N_go2, N_zz, N_mm, N_tm,
      N_bad, N_organized>>

Catalog == Range(CatalogOrder) \ {N_organized}

\* A texture-slot value that is not a string (a JSON number).
NonStrings == {"#7"}
IsStr(v) == v \notin NonStrings

\* json.load of a file that is no JSON document raises: safe_read_json gives None.
Blob == [kind |-> "none", assets |-> <<>>, hasMesh |-> FALSE, mesh |-> "",
         hasRend |-> FALSE, rend |-> <<>>, textures |-> <<>>]

Manifest(a) == [Blob EXCEPT !.kind = "manifest", !.assets = a]

GameObject(hasMesh, mesh, hasRend, rend) ==
    [Blob EXCEPT !.kind = "gameobject", !.hasMesh = hasMesh, !.mesh = mesh,
                 !.hasRend = hasRend, !.rend = rend]

Material(t) == [Blob EXCEPT !.kind = "material", !.textures = t]

GoodAssets == <<"A1", "B2", "T9", "G3", "G4">>

HeaderChoices == {Manifest(GoodAssets), Manifest(<<"A1", "B2", "A1">>), Blob}

OldHeaderChoices == {Manifest(<<"B2", "A1">>)}

\* The "textures" of a material, in document order; "" is an empty slot.
TextureLists ==
    {<<"">>, <<"T9">>, <<"ZZ">>, <<"#7">>, <<"ZZ", "T9">>}

MaterialChoices == {Material(t) : t \in TextureLists} \cup {Blob}

GameObjectChoices ==
    { GameObject(TRUE, "A1", TRUE, <<"B2">>),
      GameObject(FALSE, "", TRUE, <<"B2">>),
      GameObject(TRUE, "A1", FALSE, <<>>),
      GameObject(TRUE, "ZZ", TRUE, <<"B2">>),
      Blob }

GameObject2Choices ==
    { GameObject(TRUE, "A1", TRUE, <<"B2">>),
      GameObject(TRUE, "G4", TRUE, <<"G4">>) }

SeqsUpTo(S, n) == UNION {[1..m -> S] : m \in 0..n}

\* The reference directory: one instance with its mesh, material and
\* texture, and the manifest.
Reference == {N_header, N_mesh, N_mat, N_tex, N_go}

ReferenceContent(n) ==
    CASE n = N_header -> Manifest(GoodAssets)
      [] n = N_mat    -> Material(<<"T9">>)
      [] n = N_go     -> GameObject(TRUE, "A1", TRUE, <<"B2">>)
      [] OTHER        -> Blob

\* The number of differences from the reference directory, the reverse
\* enumeration order counting as one.
Odd(d, cont, reversed) ==
    Cardinality((Reference \ d) \cup (d \ Reference))
    + Cardinality({n \in d \cap Reference : cont[n] # ReferenceContent(n)})
    + (IF reversed THEN 1 ELSE 0)

\* os.path.isdir of an entry of the input directory.
IsDirectory(path) == Basename(path) = N_organized

(***************************************************************************)
(* organize_crp_assets, lines 48-120: discovery, the indexes, the manifest *)
(***************************************************************************)
\* os.listdir(input_dir) joined with input_dir.
RECURSIVE JoinAll(_)
JoinAll(names) ==
    IF Len(names) = 0 THEN <<>>
    ELSE <<Join(input_dir, Head(names))>> \o JoinAll(Tail(names))

listdir(entries, reversed) ==
    LET order == IF reversed THEN Reverse(CatalogOrder) ELSE CatalogOrder
    IN  JoinAll(SelectSeq(order, LAMBDA n : n \in entries))

\* filename.split('entry_')[1].split('_')[0], as the tokens of the field;
\* <<"IndexError">> when split('entry_') has a single part.
IndexField(path) ==
    LET p == Find(path, <<"entry", "_">>)
    IN  IF p = 0 THEN <<"IndexError">>
        ELSE LET rest == Slice(path, p + 2, Len(path))
                 q    == Find(rest, <<"entry", "_">>)
                 part == IF q = 0 THEN rest ELSE Slice(rest, 1, q - 1)
                 r    == Find(part, <<"_">>)
             IN  IF r = 0 THEN part ELSE Slice(part, 1, r - 1)

\* Whether int(...) of the field raises (ValueError, or the IndexError above).
IndexRaises(path) ==
    LET f == IndexField(path)
    IN  ~(Len(f) = 1 /\ f[1] \in DOMAIN NumVal)

\* int(filename.split('entry_')[1].split('_')[0])
ExtractionIndex(path) == NumVal[IndexField(path)[1]]

\* The files the index loop does not skip: 'entry' in filename.
EntryFiles(all) == {i \in 1..Len(all) : Contains(all[i], <<"entry">>)}

\* A dict filled in a loop over positions I of seq: the last position wins.
LastWins(I) == CHOOSE i \in I : \A j \in I : j <= i

build_map_idx2filename(all) ==
    LET E == EntryFiles(all)
    IN  [k \in {ExtractionIndex(all[i]) : i \in E} |->
            all[LastWins({i \in E : ExtractionIndex(all[i]) = k})]]

build_map_filename2idx(all) ==
    [f \in {all[i] : i \in EntryFiles(all)} |-> ExtractionIndex(f)]

\* The first file whose path ends with header.json, <<>> if there is none.
FirstIn(all, I) ==
    IF I = {} THEN <<>> ELSE <<all[CHOOSE i \in I : \A j \in I : i <= j]>>

\* find_header_file without the break: the last match.
find_header_file_last(all) ==
    LET I == {i \in 1..Len(all) : EndsWith(all[i], <<"header", ".json">>)}
    IN  IF I = {} THEN <<>> ELSE <<all[LastWins(I)]>>

find_header_file(all) ==
    FirstIn(all, {i \in 1..Len(all) : EndsWith(all[i], <<"header", ".json">>)})

\* build_map_hash2idx with idx incremented before it is stored.
build_map_hash2idx_from1(assets) ==
    [c \in Range(assets) |-> LastWins({i \in 1..Len(assets) : assets[i] = c})]

\* map_hash2idx: checksum -> position in header["assets"], from 0.
build_map_hash2idx(assets) ==
    [c \in Range(assets) |-> LastWins({i \in 1..Len(assets) : assets[i] = c}) - 1]

build_map_idx2hash(assets) == [k \in 0..(Len(assets) - 1) |-> assets[k + 1]]

find_gameobject_files(all) ==
    SelectSeq(all, LAMBDA f : EndsWith(f, <<"GameObject", ".json">>))

(***************************************************************************)
(* organize_crp_assets, lines 122-205: resolving one instance.             *)
(***************************************************************************)
\* safe_read_json(file_path) is None
IsNone(doc) == doc.kind = "none"

\* The window of the nearby-texture search: abs(material_idx - file_idx) < 10.
Window == 10

\* safe_read_json(file_path): the document of a file of the input directory.
safe_read_json(cont, path) == cont[Basename(path)]

\* file_path looks like an image (line 188).
ImageLike(path) ==
    \/ Contains(path, <<"Texture">>)
    \/ EndsWith(path, <<".png">>)
    \/ EndsWith(path, <<".jpg">>)

\* Lines 187-191: the first file whose path holds the checksum and looks
\* like an image.
SearchByName(texture_hash, all) ==
    FirstIn(all, {i \in 1..Len(all) :
                    Contains(all[i], <<texture_hash>>) /\ ImageLike(all[i])})

\* dict.get(key, 0)
GetOr0(map, key) == IF key \in DOMAIN map THEN map[key] ELSE 0

\* Lines 196-205: the first .png/.jpg file whose extraction index is within
\* the window of the material file's.
SearchNearby(material_filename, all, f2i) ==
    FirstIn(all, {i \in 1..Len(all) :
        /\ EndsWith(all[i], <<".png">>) \/ EndsWith(all[i], <<".jpg">>)
        /\ Abs(GetOr0(f2i, material_filename) - GetOr0(f2i, all[i])) < Window})

\* ResolveTexture with the nearby search tried before the search by name.
ResolveTexture_nearby_first(texture_hash, material_filename, all, h2i, i2f, f2i) ==
    IF texture_hash \in DOMAIN h2i
    THEN [how |-> "index",
          files |-> IF h2i[texture_hash] \in DOMAIN i2f
                    THEN <<i2f[h2i[texture_hash]]>> ELSE <<>>]
    ELSE IF SearchNearby(material_filename, all, f2i) # <<>>
         THEN [how |-> "nearby",
               files |-> SearchNearby(material_filename, all, f2i)]
         ELSE [how |-> "search", files |-> SearchByName(texture_hash, all)]

\* Lines 177-205 for one texture hash: the files appended to
\* texture_filenames (none or one) and the branch that appended.
\* A hash that is no string is not a key of map_hash2idx, and
\* "texture_hash in file_path" raises TypeError on the first file: only then
\* the except branch, the nearby search, runs.
ResolveTexture(texture_hash, material_filename, all, h2i, i2f, f2i) ==
    IF texture_hash \in DOMAIN h2i
    THEN [how |-> "index",
          files |-> IF h2i[texture_hash] \in DOMAIN i2f
                    THEN <<i2f[h2i[texture_hash]]>> ELSE <<>>]
    ELSE IF IsStr(texture_hash) \/ Len(all) = 0
         THEN [how |-> "search", files |-> SearchByName(texture_hash, all)]
         ELSE [how |-> "nearby",
               files |-> SearchNearby(material_filename, all, f2i)]

\* Lines 166-170: the non-empty texture references of the material.
texture_hashes(material) ==
    IF material.kind = "material"
    THEN SelectSeq(material.textures, LAMBDA v : v # "")
    ELSE <<>>

\* Whether lines 136-153 raise (KeyError, IndexError) for a GameObject.
ResolutionRaises(gameobject, h2i, i2f) ==
    IF gameobject.kind # "gameobject" THEN TRUE
    ELSE IF ~gameobject.hasMesh THEN TRUE
    ELSE IF ~gameobject.hasRend THEN TRUE
    ELSE IF Len(gameobject.rend) = 0 THEN TRUE
    ELSE IF gameobject.mesh \notin DOMAIN h2i THEN TRUE
    ELSE IF h2i[gameobject.mesh] \notin DOMAIN i2f THEN TRUE
    ELSE IF gameobject.rend[1] \notin DOMAIN h2i THEN TRUE
    ELSE h2i[gameobject.rend[1]] \notin DOMAIN i2f

\* Concatenation of a sequence of sequences.
RECURSIVE Flatten(_)
Flatten(ss) == IF Len(ss) = 0 THEN <<>> ELSE Head(ss) \o Flatten(Tail(ss))

\* Lines 136-205: the bundle of one instance that resolves.
Bundle(gofile, gameobject, cont, all, h2i, i2f, f2i) ==
    LET mesh_filename     == i2f[h2i[gameobject.mesh]]
        material_filename == i2f[h2i[gameobject.rend[1]]]
        hashes == texture_hashes(safe_read_json(cont, material_filename))
        res    == [j \in 1..Len(hashes) |->
                     ResolveTexture(hashes[j], material_filename, all, h2i, i2f, f2i)]
    IN  [go |-> gofile, mesh |-> mesh_filename, material |-> material_filename,
         hashes |-> hashes, res |-> res,
         texture_filenames |-> Flatten([j \in 1..Len(hashes) |-> res[j].files])]

\* The files a bundle copies into its instance directory (lines 211-250).
BundleFiles(b) ==
    {b.go, b.mesh, b.material} \cup Range(b.texture_filenames)

(***************************************************************************)
(* organize_crp_assets, lines 255-296: the unassigned sweep.               *)
(***************************************************************************)
\* Classify with the material test before the mesh test.
Classify_material_first(filename) ==
    IF EndsWith(filename, <<".json">>) /\ Contains(filename, <<"Material">>)
    THEN "material"
    ELSE IF EndsWith(filename, <<".obj">>) \/ Contains(filename, <<"Mesh">>)
    THEN "mesh"
    ELSE IF \/ EndsWith(filename, <<".png">>)
            \/ EndsWith(filename, <<".jpg">>)
            \/ Contains(filename, <<"Texture">>)
    THEN "texture"
    ELSE "other"

\* Lines 279-290: the bucket of an unassigned file, by its basename.
Classify(filename) ==
    IF EndsWith(filename, <<".obj">>) \/ Contains(filename, <<"Mesh">>)
    THEN "mesh"
    ELSE IF EndsWith(filename, <<".json">>) /\ Contains(filename, <<"Material">>)
    THEN "material"
    ELSE IF \/ EndsWith(filename, <<".png">>)
            \/ EndsWith(filename, <<".jpg">>)
            \/ Contains(filename, <<"Texture">>)
    THEN "texture"
    ELSE "other"

\* assigned_files_of with the scan stopping one instance early.
assigned_files_skipping_last(inst, n) ==
    {Join(input_dir, Basename(e[2])) : e \in {x \in inst : x[1] < n - 1}}

\* Lines 256-269: the input paths rebuilt from the names in the instance
\* directories instance_0 .. instance_<n-1>.
assigned_files_of(inst, n) ==
    {Join(input_dir, Basename(e[2])) : e \in {x \in inst : x[1] < n}}

(***************************************************************************)
(* The state.                                                              *)
(***************************************************************************)
VARIABLES
    files0,            \* the entries of the input directory before the process ran
    files,             \* the entries of the input directory now
    content,           \* the document each input file holds
    rev,               \* whether os.listdir enumerates in reverse
    mode,              \* "input" (--input) or "file" (--file)
    outArg,            \* "default" (no --output) or "explicit"
    units,             \* the units of work: the lines of the --file list
    pc,                \* where the process is
    u,                 \* the unit being processed, from 1
    success_count,
    failure_count,
    mainRet,           \* the value main() returned, -1 before and on an exception
    exitCode,          \* the exit status of the process, -1 while it runs
    all_files,
    map_idx2filename,
    map_filename2idx,
    map_hash2idx,
    gameobject_files,
    inst_id,
    bundles,           \* the bundles resolved in this run, by instance
    assigned_files,
    k,                 \* position of the sweep in all_files, from 1
    instFiles,         \* <<id, name>>: a file of <output>/instances/instance_<id>/
    bucketFiles,       \* <<bucket, name>>: a file of <output>/unassigned/<bucket>/
    copiesInst,        \* copies into instance directories in this run
    copiesSweep,       \* copies into unassigned buckets in this run
    treeBefore,        \* the output tree when this run began
    completedRuns,     \* runs of organize_crp_assets that returned
    outcomes           \* per unit processed: "ok" or "fail"

inputVars  == <<files0, content, rev, mode, outArg, units>>
driverVars == <<u, success_count, failure_count, mainRet, exitCode, outcomes>>
localVars  == <<all_files, map_idx2filename, map_filename2idx, map_hash2idx,
                gameobject_files, inst_id, bundles, assigned_files, k>>
outputVars == <<instFiles, bucketFiles>>
countVars  == <<copiesInst, copiesSweep, treeBefore, completedRuns>>
vars == <<inputVars, files, pc, driverVars, localVars, outputVars, countVars>>

Buckets == {"mesh", "material", "texture", "other"}

\* The files of the output tree.
Tree == [inst |-> instFiles, bucket |-> bucketFiles]

EmptyMap == [x \in {} |-> 0]

LocalsCleared ==
    /\ all_files' = <<>>
    /\ map_idx2filename' = EmptyMap
    /\ map_filename2idx' = EmptyMap
    /\ map_hash2idx' = EmptyMap
    /\ gameobject_files' = <<>>
    /\ inst_id' = 0
    /\ bundles' = <<>>
    /\ assigned_files' = {}
    /\ k' = 0

(***************************************************************************)
(* Init: a process started on an input directory with a fresh output.      *)
(***************************************************************************)
DriverChoices ==
    {[mode |-> "input", outArg |-> o, units |-> <<"dir">>] :
        o \in {"default", "explicit"}}
    \cup {[mode |-> "file", outArg |-> "explicit", units |-> us] :
            us \in SeqsUpTo({"dir", "nodir"}, MaxUnits)}

ChoicesIf(present, S) == IF present THEN S ELSE {Blob}

Init ==
    /\ rev \in BOOLEAN
    /\ \E d \in SUBSET Catalog :
         /\ Cardinality((Reference \ d) \cup (d \ Reference)) <= MaxOdd
         /\ files0 = d
         /\ \E hc \in ChoicesIf(N_header \in d, HeaderChoices),
               oc \in ChoicesIf(N_old \in d, OldHeaderChoices),
               mc \in ChoicesIf(N_mat \in d, MaterialChoices),
               gc \in ChoicesIf(N_go \in d, GameObjectChoices),
               g2 \in ChoicesIf(N_go2 \in d, GameObject2Choices) :
              LET cont == [n \in d |->
                                CASE n = N_header -> hc
                                  [] n = N_old    -> oc
                                  [] n = N_mat    -> mc
                                  [] n = N_go     -> gc
                                  [] n = N_go2    -> g2
                                  [] OTHER        -> Blob]
              IN  Odd(d, cont, rev) <= MaxOdd /\ content = cont
    /\ files = files0
    /\ \E c \in DriverChoices :
         mode = c.mode /\ outArg = c.outArg /\ units = c.units
    /\ pc = "next_unit"
    /\ u = 1
    /\ success_count = 0
    /\ failure_count = 0
    /\ mainRet = -1
    /\ exitCode = -1
    /\ all_files = <<>>
    /\ map_idx2filename = EmptyMap
    /\ map_filename2idx = EmptyMap
    /\ map_hash2idx = EmptyMap
    /\ gameobject_files = <<>>
    /\ inst_id = 0
    /\ bundles = <<>>
    /\ assigned_files = {}
    /\ k = 0
    /\ instFiles = {}
    /\ bucketFiles = {}
    /\ copiesInst = 0
    /\ copiesSweep = 0
    /\ treeBefore = Tree
    /\ completedRuns = 0
    /\ outcomes = <<>>

(***************************************************************************)
(* organize_crp_assets(folder, output, verbose), called for unit u.        *)
(***************************************************************************)
Calling == pc = "next_unit" /\ u <= Len(units) /\ units[u] = "dir"

\* Lines 26-46: os.makedirs of the output tree; the default output directory
\* is input_dir/organized.
EntriesAfterMakedirs(entries, out) ==
    IF out = "default" THEN entries \cup {N_organized} ELSE entries

\* Lines 70-100: whether building the index or reading the manifest raises
\* (IndexError or ValueError of the index field, no header.json, a header
\* that cannot be read, a header without "assets").
SetupRaises(all, cont) ==
    IF \E i \in EntryFiles(all) : IndexRaises(all[i]) THEN TRUE
    ELSE IF find_header_file(all) = <<>> THEN TRUE
    ELSE safe_read_json(cont, find_header_file(all)[1]).kind # "manifest"

\* Lines 24-100, the run raising before any instance is resolved.
organize_setup_raises ==
    /\ Calling
    /\ LET entries == EntriesAfterMakedirs(files, outArg)
           all     == listdir(entries, rev)
       IN  /\ SetupRaises(all, content)
           /\ files' = entries
           /\ all_files' = all
    /\ pc' = "raised"
    /\ treeBefore' = Tree
    /\ copiesInst' = 0
    /\ copiesSweep' = 0
    /\ UNCHANGED <<inputVars, driverVars, outputVars, completedRuns,
                   map_idx2filename, map_filename2idx, map_hash2idx,
                   gameobject_files, inst_id, bundles, assigned_files, k>>

\* Lines 24-120: the output directories, all_files, the indexes, the
\* manifest and the GameObject files.
organize_setup ==
    /\ Calling
    /\ LET entries == EntriesAfterMakedirs(files, outArg)
           all     == listdir(entries, rev)
           header  == safe_read_json(content, find_header_file(all)[1])
       IN  /\ ~SetupRaises(all, content)
           /\ files' = entries
           /\ all_files' = all
           /\ map_idx2filename' = build_map_idx2filename(all)
           /\ map_filename2idx' = build_map_filename2idx(all)
           /\ map_hash2idx' = build_map_hash2idx(header.assets)
           /\ gameobject_files' = find_gameobject_files(all)
    /\ inst_id' = 0
    /\ bundles' = <<>>
    /\ assigned_files' = {}
    /\ k' = 0
    /\ pc' = "resolve"
    /\ treeBefore' = Tree
    /\ copiesInst' = 0
    /\ copiesSweep' = 0
    /\ UNCHANGED <<inputVars, driverVars, outputVars, completedRuns>>

Resolving == pc = "resolve" /\ inst_id < Len(gameobject_files)

\* Lines 128-131: the GameObject file cannot be read: the instance is skipped.
instance_skipped ==
    /\ Resolving
    /\ IsNone(safe_read_json(content, gameobject_files[inst_id + 1]))
    /\ inst_id' = inst_id + 1
    /\ UNCHANGED <<inputVars, files, pc, driverVars, outputVars, countVars,
                   all_files, map_idx2filename, map_filename2idx, map_hash2idx,
                   gameobject_files, bundles, assigned_files, k>>

\* Lines 136-153: a missing key or an unresolved checksum raises KeyError
\* (IndexError for an empty renderer list) out of organize_crp_assets.
instance_raises ==
    /\ Resolving
    /\ LET gameobject == safe_read_json(content, gameobject_files[inst_id + 1])
       IN  /\ ~IsNone(gameobject)
           /\ ResolutionRaises(gameobject, map_hash2idx, map_idx2filename)
    /\ pc' = "raised"
    /\ UNCHANGED <<inputVars, files, driverVars, outputVars, countVars, localVars>>

\* CopyIfAbsent without the os.path.exists test.
CopyAlways(inst, id, paths) ==
    {<<id, Basename(f)>> : f \in paths}

\* Lines 211-250: a file is copied unless its destination exists.
CopyIfAbsent(inst, id, paths) ==
    {<<id, Basename(f)>> : f \in paths} \ inst

\* Lines 128-250: the instance resolves and its files are copied into
\* instances/instance_<inst_id>/.
instance_copied ==
    /\ Resolving
    /\ LET gofile     == gameobject_files[inst_id + 1]
           gameobject == safe_read_json(content, gofile)
       IN  /\ ~IsNone(gameobject)
           /\ ~ResolutionRaises(gameobject, map_hash2idx, map_idx2filename)
           /\ LET b   == Bundle(gofile, gameobject, content, all_files,
                                map_hash2idx, map_idx2filename, map_filename2idx)
                  new == CopyIfAbsent(instFiles, inst_id, BundleFiles(b))
              IN  /\ bundles' = Append(bundles, [id |-> inst_id, bundle |-> b])
                  /\ instFiles' = instFiles \cup new
                  /\ copiesInst' = copiesInst + Cardinality(new)
    /\ inst_id' = inst_id + 1
    /\ UNCHANGED <<inputVars, files, pc, driverVars, bucketFiles, copiesSweep,
                   treeBefore, completedRuns, all_files, map_idx2filename,
                   map_filename2idx, map_hash2idx, gameobject_files,
                   assigned_files, k>>

\* Lines 255-269: assigned_files, from the instance directories.
collect_assigned ==
    /\ pc = "resolve"
    /\ inst_id = Len(gameobject_files)
    /\ assigned_files' = assigned_files_of(instFiles, Len(gameobject_files))
    /\ k' = 1
    /\ pc' = "sweep"
    /\ UNCHANGED <<inputVars, files, driverVars, outputVars, countVars,
                   all_files, map_idx2filename, map_filename2idx, map_hash2idx,
                   gameobject_files, inst_id, bundles>>

Sweeping == pc = "sweep" /\ k <= Len(all_files)

\* Line 275: an assigned file is passed over.
sweep_assigned ==
    /\ Sweeping
    /\ all_files[k] \in assigned_files
    /\ k' = k + 1
    /\ UNCHANGED <<inputVars, files, pc, driverVars, outputVars, countVars,
                   all_files, map_idx2filename, map_filename2idx, map_hash2idx,
                   gameobject_files, inst_id, bundles, assigned_files>>

\* InputAfterCopy with shutil.move in the place of shutil.copy2.
InputAfterMove(entries, path) == entries \ {Basename(path)}

\* Line 294: shutil.copy2 leaves its source in the input directory.
InputAfterCopy(entries, path) == entries

\* Lines 293-294: the destination of an unassigned file; shutil.copy2
\* writes it whether or not it exists.
SweepCopy(buckets, path) ==
    buckets \cup {<<Classify(Basename(path)), Basename(path)>>}

\* Lines 275-296: an unassigned file is copied into its bucket.
sweep_copied ==
    /\ Sweeping
    /\ all_files[k] \notin assigned_files
    /\ ~IsDirectory(all_files[k])
    /\ bucketFiles' = SweepCopy(bucketFiles, all_files[k])
    /\ files' = InputAfterCopy(files, all_files[k])
    /\ copiesSweep' = copiesSweep + 1
    /\ k' = k + 1
    /\ UNCHANGED <<inputVars, pc, driverVars, instFiles, copiesInst,
                   treeBefore, completedRuns, all_files, map_idx2filename,
                   map_filename2idx, map_hash2idx, gameobject_files, inst_id,
                   bundles, assigned_files>>

\* Line 294: shutil.copy2 of a directory raises IsADirectoryError out of
\* organize_crp_assets.
sweep_raises ==
    /\ Sweeping
    /\ all_files[k] \notin assigned_files
    /\ IsDirectory(all_files[k])
    /\ pc' = "raised"
    /\ UNCHANGED <<inputVars, files, driverVars, outputVars, countVars, localVars>>

\* Lines 298-299: the run returns output_dir.
organize_returns ==
    /\ pc = "sweep"
    /\ k > Len(all_files)
    /\ pc' = "returned"
    /\ completedRuns' = completedRuns + 1
    /\ UNCHANGED <<inputVars, files, driverVars, outputVars, localVars,
                   copiesInst, copiesSweep, treeBefore>>

(***************************************************************************)
(* main and process_crp_folders.                                           *)
(***************************************************************************)
\* Lines 370-376: main() is called and its value dropped; an exception is
\* printed.  The interpreter then ends with status 0.
ProcessExit(ret) == 0

\* process_crp_folders, line 348.
BatchReturn(failures) == IF failures = 0 THEN 0 ELSE 1

\* Lines 328-331: a line of the list that names no directory.
not_a_directory ==
    /\ pc = "next_unit"
    /\ u <= Len(units)
    /\ units[u] = "nodir"
    /\ failure_count' = failure_count + 1
    /\ outcomes' = Append(outcomes, "fail")
    /\ u' = u + 1
    /\ UNCHANGED <<inputVars, files, pc, success_count, mainRet, exitCode,
                   localVars, outputVars, countVars>>

\* organize_crp_assets returned: lines 338-339 in a batch; in --input mode
\* main returns 0 (lines 366-367) and the process ends.
unit_succeeded ==
    /\ pc = "returned"
    /\ outcomes' = Append(outcomes, "ok")
    /\ u' = u + 1
    /\ LocalsCleared
    /\ IF mode = "file"
       THEN /\ success_count' = success_count + 1
            /\ pc' = "next_unit"
            /\ UNCHANGED <<mainRet, exitCode>>
       ELSE /\ mainRet' = 0
            /\ exitCode' = ProcessExit(0)
            /\ pc' = "exited"
            /\ UNCHANGED success_count
    /\ UNCHANGED <<inputVars, files, failure_count, outputVars, countVars>>

\* organize_crp_assets raised: lines 340-344 in a batch; in --input mode the
\* exception leaves main and is caught at lines 373-376.
unit_failed ==
    /\ pc = "raised"
    /\ outcomes' = Append(outcomes, "fail")
    /\ u' = u + 1
    /\ LocalsCleared
    /\ IF mode = "file"
       THEN /\ failure_count' = failure_count + 1
            /\ pc' = "next_unit"
            /\ UNCHANGED <<mainRet, exitCode>>
       ELSE /\ exitCode' = ProcessExit(mainRet)
            /\ pc' = "exited"
            /\ UNCHANGED <<failure_count, mainRet>>
    /\ UNCHANGED <<inputVars, files, success_count, outputVars, countVars>>

\* Lines 346-348 and 364: the batch is over; main returns its value.
batch_done ==
    /\ pc = "next_unit"
    /\ u > Len(units)
    /\ mainRet' = BatchReturn(failure_count)
    /\ exitCode' = ProcessExit(BatchReturn(failure_count))
    /\ pc' = "exited"
    /\ UNCHANGED <<inputVars, files, u, success_count, failure_count, outcomes,
                   localVars, outputVars, countVars>>

Next ==
    \/ organize_setup_raises
    \/ organize_setup
    \/ instance_skipped
    \/ instance_raises
    \/ instance_copied
    \/ collect_assigned
    \/ sweep_assigned
    \/ sweep_copied
    \/ sweep_raises
    \/ organize_returns
    \/ not_a_directory
    \/ unit_succeeded
    \/ unit_failed
    \/ batch_done

Spec == Init /\ [][Next]_vars

(***************************************************************************)
(* The properties.                                                         *)
(***************************************************************************)
\* The instance directories that hold a file named n.
InstancesHolding(n) == {e[1] : e \in {x \in instFiles : x[2] = n}}

\* The unassigned buckets that hold a file named n.
BucketsHolding(n) == {b \in Buckets : <<b, n>> \in bucketFiles}

\* No two instances of this run claim the same file.
NoSharedClaims ==
    \A i, j \in 1..Len(bundles) :
        i # j => BundleFiles(bundles[i].bundle) \cap BundleFiles(bundles[j].bundle) = {}

\* C1: when organize_crp_assets has returned and no two instances claimed
\* the same file, every entry of the input directory has a copy in exactly
\* one place: one instance directory or one unassigned bucket.
Partition ==
    (pc = "returned" /\ NoSharedClaims) =>
        \A n \in files :
            Cardinality(InstancesHolding(n)) + Cardinality(BucketsHolding(n)) = 1

\* C1, witness: a run returned with two instances that share no file and
\* with unassigned files in a bucket.
PartitionWitness ==
    /\ pc = "returned"
    /\ NoSharedClaims
    /\ Len(bundles) = 2
    /\ bucketFiles # {}

\* The files the sweep of this run does not pass over.
Unassigned == {i \in 1..Len(all_files) : all_files[i] \notin assigned_files}

\* C2, as claimed: a second run on the same input and output leaves the
\* output tree as it was and copies no file, neither into an instance
\* directory nor into a bucket.
IdempotentNoCopies ==
    (pc = "returned" /\ completedRuns >= 2) =>
        /\ Tree = treeBefore
        /\ copiesInst = 0
        /\ copiesSweep = 0

\* C2, amended: a second run leaves the output tree as it was, copies no
\* file into an instance directory and does not raise; the sweep writes
\* every unassigned file into its bucket again.
IdempotentTree ==
    /\ (pc = "returned" /\ completedRuns >= 2) =>
            /\ Tree = treeBefore
            /\ copiesInst = 0
            /\ copiesSweep = Cardinality(Unassigned)
    /\ pc = "raised" => completedRuns = 0

\* C2, witness: a second run returned, with files in instance directories
\* and files written again by the sweep.
IdempotentWitness ==
    /\ pc = "returned"
    /\ completedRuns = 2
    /\ instFiles # {}
    /\ copiesSweep > 0

\* C3, as claimed: a GameObject record that lacks a key or whose checksum
\* does not resolve never makes the run raise: the run is never left in
\* the instance loop.
InstanceFailureNonFatal ==
    pc = "raised" => ~(k = 0 /\ inst_id < Len(gameobject_files))

\* The manifest's asset list of this run.
Assets ==
    IF find_header_file(all_files) = <<>> THEN <<>>
    ELSE safe_read_json(content, find_header_file(all_files)[1]).assets

\* The number p of a file named entry_<p>_..., -1 for any other name.
NominalIndex(path) ==
    LET n == Basename(path)
    IN  IF /\ Len(n) >= 4
           /\ n[1] = "entry" /\ n[2] = "_" /\ n[4] = "_"
           /\ n[3] \in DOMAIN NumVal
        THEN NumVal[n[3]]
        ELSE -1

\* The file is named entry_<p>_...
NamedEntry(path, p) == p >= 0 /\ NominalIndex(path) = p

UniqueChecksums(a) == \A i, j \in 1..Len(a) : a[i] = a[j] => i = j

UniqueIndexes(all) ==
    \A i, j \in 1..Len(all) :
        (NominalIndex(all[i]) >= 0 /\ NominalIndex(all[i]) = NominalIndex(all[j]))
            => i = j

\* The indexes are built and the instances are being resolved.
IndexBuilt == pc = "resolve"

Candidates == {i \in 1..Len(all_files) : EndsWith(all_files[i], <<"header", ".json">>)}

ExitCodeTellsFailure ==
    pc = "exited" =>
        (exitCode = 0 <=> \A i \in 1..Len(outcomes) : outcomes[i] = "ok")

\* C7, as claimed: the entries of the input directory never change.
InputNeverMutated == files = files0

\* C7, amended: with an output directory given outside the input
\* directory, the entries of the input directory never change.
InputKeptWithExplicitOutput == outArg = "explicit" => files = files0

\* C7, witness: a run with an explicit output returned after copying into
\* an instance directory and into a bucket.
InputKeptWitness ==
    /\ outArg = "explicit"
    /\ pc = "returned"
    /\ instFiles # {}
    /\ copiesSweep > 0

\* The resolutions of this run: instance b (a position of bundles), texture
\* hash j of its material.
Resolutions ==
    UNION {{<<b, j>> : j \in 1..Len(bundles[b].bundle.hashes)} :
            b \in 1..Len(bundles)}

\* The files whose path holds the checksum h and ends in .png.
PngNamed(h) ==
    {i \in 1..Len(all_files) :
        Contains(all_files[i], <<h>>) /\ EndsWith(all_files[i], <<".png">>)}

\* The files whose path holds the checksum h and looks like an image.
ImagesNamed(h) ==
    {i \in 1..Len(all_files) :
        Contains(all_files[i], <<h>>) /\ ImageLike(all_files[i])}

\* C8: for a texture checksum (a string) with no entry in the checksum
\* index and a file whose path holds it and ends in .png, the resolver
\* adds one file, whose path holds the checksum: the first such image file
\* in enumeration order, which is that .png file when no other image file
\* holds the checksum; never a file that only lies near the material.
NameBeforeNearby ==
    pc = "resolve" => \A r \in Resolutions :
        LET b == bundles[r[1]].bundle
            h == b.hashes[r[2]]
            got == b.res[r[2]].files
        IN  (IsStr(h) /\ h \notin DOMAIN map_hash2idx /\ PngNamed(h) # {}) =>
                /\ Len(got) = 1
                /\ Contains(got[1], <<h>>)
                /\ \E i \in ImagesNamed(h) :
                      got[1] = all_files[i] /\ \A j \in ImagesNamed(h) : i <= j
                /\ (ImagesNamed(h) = PngNamed(h) /\ Cardinality(PngNamed(h)) = 1) =>
                      \E i \in PngNamed(h) : got[1] = all_files[i]

\* The files the nearby search would accept for a material file.
NearbyCandidates(material_filename) ==
    {i \in 1..Len(all_files) :
        /\ EndsWith(all_files[i], <<".png">>) \/ EndsWith(all_files[i], <<".jpg">>)
        /\ Abs(GetOr0(map_filename2idx, material_filename)
               - GetOr0(map_filename2idx, all_files[i])) < Window}

\* C8, witness: an instance whose material names a checksum outside the
\* index, with a .png file of that name and another .png file near the
\* material.
NameBeforeNearbyWitness ==
    pc = "resolve" /\ \E r \in Resolutions :
        LET b == bundles[r[1]].bundle
            h == b.hashes[r[2]]
        IN  /\ IsStr(h) /\ h \notin DOMAIN map_hash2idx
            /\ PngNamed(h) # {}
            /\ NearbyCandidates(b.material) \ PngNamed(h) # {}
            /\ b.res[r[2]].how = "search"

\* The claim's rules for an unassigned name, in their order.
IsMeshName(n)     == Contains(n, <<"Mesh">>) \/ EndsWith(n, <<".obj">>)
IsMaterialName(n) == EndsWith(n, <<".json">>) /\ Contains(n, <<"Material">>)
IsTextureName(n)  ==
    EndsWith(n, <<".png">>) \/ EndsWith(n, <<".jpg">>) \/ Contains(n, <<"Texture">>)

\* C9: when the sweep ends (the run returns, or raises in the sweep),
\* every file it passed that is not in assigned_files lies in exactly one
\* bucket: mesh if the mesh rule matches, else material if the material
\* rule matches, else texture if the texture rule matches, else other.
BucketPriority ==
    (pc = "returned" \/ (pc = "raised" /\ k >= 1)) =>
        \A i \in 1..(k - 1) :
            all_files[i] \notin assigned_files =>
                LET n == Basename(all_files[i])
                IN  BucketsHolding(n) =
                        {IF IsMeshName(n) THEN "mesh"
                         ELSE IF IsMaterialName(n) THEN "material"
                         ELSE IF IsTextureName(n) THEN "texture"
                         ELSE "other"}

\* C9, witness: a sweep returned having placed a name that matches the
\* mesh and the material rule, beside files of an instance.
BucketPriorityWitness ==
    /\ pc = "returned"
    /\ <<"mesh", N_mm>> \in bucketFiles
    /\ <<"other", N_header>> \in bucketFiles
    /\ instFiles # {}

\* C10, as claimed: for a non-empty texture checksum with no entry in the
\* checksum index and in no image file's path, the resolver adds the first
\* .png or .jpg file whose extraction index is within the window of the
\* material file's, and omits the slot only when there is none.
NearbyFallback ==
    pc = "resolve" => \A r \in Resolutions :
        LET b == bundles[r[1]].bundle
            h == b.hashes[r[2]]
            I == NearbyCandidates(b.material)
        IN  (h \notin DOMAIN map_hash2idx /\ ImagesNamed(h) = {}) =>
                b.res[r[2]].files = FirstIn(all_files, I)

\* C11, as claimed: a copy that fails in the unassigned sweep never makes
\* the run raise: the failure is passed, the remaining files are still
\* swept and organize_crp_assets returns, so the run is never left at a
\* file of the sweep.
SweepCopyFailureNonFatal ==
    pc = "raised" => ~(k >= 1 /\ k <= Len(all_files))
====
